---- MODULE Spec2Model ----
(***************************************************************************)
(* A model of the Mr_R front-end: the long-running media workflow          *)
(* (generateVideoVeo: submit, poll, resolve, fallback), the conversation   *)
(* store of the chat surfaces and the credential probes.                   *)
(*                                                                         *)
(* The repository holds several versions of services/geminiService.ts.     *)
(* The variable `variant` says which one is deployed:                      *)
(*   "geminiService"  src/services/geminiService.ts                        *)
(*   "part_003"       src/unnamed/part_003, lines 142-333                  *)
(*   "part_004"       src/unnamed/part_004, lines 1-123                    *)
(***************************************************************************)
EXTENDS Integers, Sequences, FiniteSets, TLC

VARIABLES
    variant,       \* which version of the service module is deployed
    envKey,        \* process.env.API_KEY
    prompt,        \* generateVideoVeo's prompt argument
    vpc,           \* position of the generateVideoVeo run
    operation,     \* the `operation` local: the handle last received
    error,         \* the value caught by generateVideoVeo's catch
    failedCall,    \* history: the call of the try block that threw
    clientKey,     \* apiKey the GoogleGenAI client of the run was built with
    fetchUrl,      \* history: the URLs passed to fetch
    handles,       \* history: done flags of the handles received, in order
    trace,         \* history: onProgress / submit / poll / fetch / image calls
    imagePrompts,  \* history: prompts passed to generateImagePro
    imageOutcome,  \* history: "none", "pending", "ok", "failed"
    imageResult,   \* history: what the fallback generateImagePro resolved to
    result,        \* value generateVideoVeo resolved to
    thrown,        \* message of the Error generateVideoVeo rejected with
    surface,       \* the chat component: "ChatBot" or "ThinkingChat"
    conversations, \* the conversations state of the component
    storage,       \* the localStorage item of the component
    currentId,     \* the currentId state
    messages,      \* the messages state
    loading,       \* the loading state
    inflight,      \* the locals of the handleSend call awaiting its reply
    request,       \* the contents of the chat request awaiting its reply
    now,           \* Date.now()
    nextId,        \* ids crypto.randomUUID() has handed out
    sends,         \* history: number of accepted handleSend calls
    lastOp,        \* history: the last operation on the store
    turns,         \* history: per id, the turns in the order they occurred
    resolver,      \* the credential probe that runs
    host,          \* window.aistudio: absent, or how hasSelectedApiKey answers
    cpc,           \* position of the probe
    verdict,       \* what the probe reported
    asked,         \* history: hasSelectedApiKey was called
    call,          \* the service operation invoked
    args,          \* its arguments: the prompt and the chat history
    spc,           \* position of the service operation
    requests,      \* history: the generateContent requests sent
    answer,        \* history: how the service settled the request
    svcResult,     \* the value the operation resolved to
    svcErrors,     \* history: messages of the Errors the operation threw
    editor,        \* ImageEditor: camera, source image and crop state
    panel,         \* a generation view: its loading flag and its call
    motion,        \* the video view of part_009: resultUrl, isRealVideo
    shell          \* the application shell: the connection flag

videoVars == <<variant, envKey, prompt, vpc, operation, error, failedCall,
               clientKey, fetchUrl, handles, trace, imagePrompts,
               imageOutcome, imageResult, result, thrown>>

chatVars == <<surface, conversations, storage, currentId, messages, loading,
              inflight, request, now, nextId, sends, lastOp, turns>>

credVars == <<resolver, host, cpc, verdict, asked>>

serviceVars == <<call, args, spc, requests, answer, svcResult, svcErrors>>

uiVars == <<editor, panel, motion, shell>>

vars == <<videoVars, chatVars, credVars, serviceVars, uiVars>>

-----------------------------------------------------------------------------
(* Strings the code inspects are sequences of characters.                  *)

Undefined == [set |-> FALSE, str |-> <<>>]
Str(s) == [set |-> TRUE, str |-> s]

S_undefined == <<"u","n","d","e","f","i","n","e","d">>
S_null == <<"n","u","l","l">>
HARDCODED_KEY == Str(<<"A","I","z","a">>)

Whitespace == {" ", "\t"}

RECURSIVE TrimStart(_)
TrimStart(s) ==
    IF s # <<>> /\ Head(s) \in Whitespace THEN TrimStart(Tail(s)) ELSE s

RECURSIVE TrimEnd(_)
TrimEnd(s) ==
    IF s # <<>> /\ s[Len(s)] \in Whitespace
    THEN TrimEnd(SubSeq(s, 1, Len(s) - 1)) ELSE s

Trim(s) == TrimEnd(TrimStart(s))

\* JavaScript truthiness of a string-or-undefined value
Truthy(k) == k.set /\ k.str # <<>>

\* `${k}`: undefined is formatted as the text "undefined"
TemplateString(k) == IF k.set THEN k.str ELSE S_undefined

-----------------------------------------------------------------------------
(* Values exchanged with the service.                                      *)

Variants == {"geminiService", "part_003", "part_004"}

Prompts == {"sunset", "city"}

\* operation handles: done flag and the uris of response.generatedVideos
Handles ==
    {[done |-> FALSE, uris |-> <<>>]} \cup
    {[done |-> TRUE, uris |-> u] : u \in {<<>>, <<"U1">>, <<"U2", "U1">>}}

\* errors: message text, the marker substrings the message holds, and the
\* marker substrings of JSON.stringify(error).toLowerCase()
ErrPermission ==
    [message |-> "PERMISSION_DENIED", msgHas |-> {"403"}, jsonHas |-> {"403"}]
ErrNotFound ==
    [message |-> "Requested entity was not found.",
     msgHas |-> {"Requested entity was not found."}, jsonHas |-> {}]
ErrQuota ==
    [message |-> "RESOURCE_EXHAUSTED", msgHas |-> {"429", "exhausted"},
     jsonHas |-> {"429"}]
ErrNetwork ==
    [message |-> "Failed to fetch", msgHas |-> {}, jsonHas |-> {}]
ErrKeyNotFound ==
    [message |-> "API_KEY_NOT_FOUND", msgHas |-> {"API_KEY_NOT_FOUND"},
     jsonHas |-> {}]
ErrSdkNoKey ==
    [message |-> "An API Key must be set when running in a browser",
     msgHas |-> {}, jsonHas |-> {}]
ErrVideoFailed ==
    [message |-> "VIDEO_FAILED", msgHas |-> {}, jsonHas |-> {}]
NoError == [message |-> "", msgHas |-> {}, jsonHas |-> {}]

ServiceErrors == {ErrPermission, ErrNotFound, ErrQuota, ErrNetwork}

\* response parts of generateContent: inline image data or text
TextPart == [inline |-> FALSE, data |-> ""]
ImageResponses ==
    {<<>>, <<TextPart>>, <<[inline |-> TRUE, data |-> "D1"]>>,
     <<TextPart, [inline |-> TRUE, data |-> "D2"],
       [inline |-> TRUE, data |-> "D1"]>>}

Payloads == {"B1", "B2"}

Null == [kind |-> "null", val |-> ""]
BlobUrl(payload) == [kind |-> "blob", val |-> payload]
DataUrl(data) == [kind |-> "data", val |-> data]

-----------------------------------------------------------------------------
(* The service module: credentials, error mapping, image synthesis.        *)

MaxPolls == 3

Includes(e, marker) == marker \in e.msgHas

\* getValidApiKey: the key is rejected when missing, empty, "undefined",
\* "null" or blank
KeyRejected(k) ==
    \/ ~Truthy(k)
    \/ k.str = S_undefined
    \/ k.str = S_null
    \/ Trim(k.str) = <<>>

\* the apiKey handed to new GoogleGenAI({apiKey}) by each version;
\* "part_003a" is the version of lines 1-140 of part_003
GetAIKey(v, k) ==
    CASE v \in {"geminiService", "part_003a"} ->
            IF Truthy(k) THEN k ELSE HARDCODED_KEY
      [] v = "part_003" -> k
      [] v = "part_004" -> k

\* what building the client throws, NoError when it is built
ClientError(v, k) ==
    CASE v \in {"geminiService", "part_003a"} -> NoError
      [] v = "part_003" -> IF KeyRejected(k) THEN ErrKeyNotFound ELSE NoError
      [] v = "part_004" -> IF ~k.set THEN ErrSdkNoKey ELSE NoError

JsonHasAny(e, markers) == e.jsonHas \cap markers # {}

\* an error mapping that hides the message of the errors it does not know
handleApiErrorMasking(e) ==
    IF JsonHasAny(e, {"429", "quota", "resource_exhausted"})
    THEN IF JsonHasAny(e, {"limit: 0"}) THEN "MODEL_LOCKED" ELSE "QUOTA_REACHED"
    ELSE IF JsonHasAny(e, {"401", "api key not valid"}) THEN "INVALID_KEY"
    ELSE IF JsonHasAny(e, {"403", "permission_denied"}) THEN "BILLING_REQUIRED"
    ELSE "SYSTEM_ERROR"

\* an error mapping that tests the permission signature first
handleApiErrorPermissionFirst(e) ==
    IF JsonHasAny(e, {"403", "permission_denied"}) THEN "BILLING_REQUIRED"
    ELSE IF JsonHasAny(e, {"429", "quota", "resource_exhausted"})
    THEN IF JsonHasAny(e, {"limit: 0"}) THEN "MODEL_LOCKED" ELSE "QUOTA_REACHED"
    ELSE IF JsonHasAny(e, {"401", "api key not valid"}) THEN "INVALID_KEY"
    ELSE IF e.message # "" THEN e.message ELSE "SYSTEM_ERROR"

handleApiError(e) ==
    IF JsonHasAny(e, {"429", "quota", "resource_exhausted"})
    THEN IF JsonHasAny(e, {"limit: 0"}) THEN "MODEL_LOCKED" ELSE "QUOTA_REACHED"
    ELSE IF JsonHasAny(e, {"401", "api key not valid"}) THEN "INVALID_KEY"
    ELSE IF JsonHasAny(e, {"403", "permission_denied"}) THEN "BILLING_REQUIRED"
    ELSE IF e.message # "" THEN e.message ELSE "SYSTEM_ERROR"

\* the first part of a response taken for an image, whatever it is
FirstPart(parts) ==
    IF parts = <<>> THEN Null ELSE DataUrl(Head(parts).data)

\* the first inline-image part of a response, as a data URL, else null
RECURSIVE FirstInline(_)
FirstInline(parts) ==
    IF parts = <<>> THEN Null
    ELSE IF Head(parts).inline THEN DataUrl(Head(parts).data)
    ELSE FirstInline(Tail(parts))

\* message of the Error generateImagePro's catch throws for e
ImageThrown(v, e) ==
    CASE v = "geminiService" -> handleApiError(e)
      [] v = "part_003" ->
            IF Includes(e, "API_KEY_NOT_FOUND") THEN "Activation Required"
            ELSE e.message
      [] v = "part_004" ->
            IF Includes(e, "API key") THEN "Neural Link Error"
            ELSE IF e.message # "" THEN e.message
            ELSE "Failed to generate image."

-----------------------------------------------------------------------------
(* generateVideoVeo                                                        *)

\* getVideosOperation calls made so far
PollCalls == Cardinality({i \in DOMAIN trace : trace[i] = "poll"})

\* a loop that tests its condition only after the first status check
LoopContinuesDoWhile(op) == ~op.done \/ PollCalls = 0

\* a loop that gives up after its first status check
LoopContinuesCapped(op) == ~op.done /\ PollCalls < 1

\* the while condition of the polling loop
LoopContinues(op) == ~op.done

NoLink == ""

\* operation.response?.generatedVideos?.[0]?.video?.uri
DownloadLink(op) == IF op.uris = <<>> THEN NoLink ELSE op.uris[1]

\* the key interpolated into the download URL
FetchKey(v, k, apiKey) ==
    CASE v = "geminiService" -> IF Truthy(k) THEN k ELSE HARDCODED_KEY
      [] v = "part_003" -> apiKey
      [] v = "part_004" -> k

\* a download URL that leaves the credential out
DownloadUrlNoKey(link, key) == <<link>>

\* `${downloadLink}&key=${key}`
DownloadUrl(link, key) == <<link, "&key=", TemplateString(key)>>

\* onProgress calls made right after the submission is acknowledged
SubmitProgress(v) == IF v = "part_003" THEN <<"progress">> ELSE <<>>

\* onProgress calls made right after a status check is answered
PollProgress(v) == IF v = "part_003" THEN <<"progress">> ELSE <<>>

\* onProgress calls made before the download
ResolveProgress(v) == IF v = "part_003" THEN <<"progress">> ELSE <<>>

\* does the catch block substitute an image for the error e?
FallsBack(v, e) ==
    CASE v = "geminiService" -> FALSE
      [] v = "part_003" -> ~Includes(e, "Requested entity was not found.")
      [] v = "part_004" -> TRUE

\* the prompt of the substituted image
FallbackPrompt(v, p) ==
    IF v = "part_003"
    THEN <<"Cinematic high-motion still frame: ", p,
           ". Professional cinematography.">>
    ELSE <<"Cinematic motion frame: ", p>>

\* what the catch block throws when it does not fall back
CatchThrown(v, e) ==
    IF v = "part_003" THEN "Key session expired" ELSE handleApiError(e)

\* onProgress calls of the catch block when it does not fall back
CatchProgress(v) == IF v = "part_003" THEN <<>> ELSE <<"progress">>

VideoStart ==
    /\ variant \in Variants
    /\ envKey \in {Undefined, Str(S_undefined), Str(<<"K">>)}
    /\ prompt \in Prompts
    /\ vpc = "start"
    /\ operation = [done |-> FALSE, uris |-> <<>>]
    /\ error = NoError
    /\ failedCall = "none"
    /\ clientKey = Undefined
    /\ fetchUrl = <<>>
    /\ handles = <<>>
    /\ trace = <<>>
    /\ imagePrompts = <<>>
    /\ imageOutcome = "none"
    /\ imageResult = Null
    /\ result = Null
    /\ thrown = ""

imageHist == <<imagePrompts, imageOutcome, imageResult>>

\* entry of the try block up to the await of generateVideos
Submit ==
    /\ vpc = "start"
    /\ IF variant = "part_003"
       THEN \* getValidApiKey() precedes the first onProgress
            IF ClientError(variant, envKey) # NoError
            THEN /\ vpc' = "catch"
                 /\ error' = ClientError(variant, envKey)
                 /\ failedCall' = "client"
                 /\ UNCHANGED <<trace, clientKey>>
            ELSE /\ vpc' = "submitting"
                 /\ clientKey' = GetAIKey(variant, envKey)
                 /\ trace' = trace \o <<"progress", "submit">>
                 /\ UNCHANGED <<error, failedCall>>
       ELSE \* onProgress precedes getAI()
            IF ClientError(variant, envKey) # NoError
            THEN /\ vpc' = "catch"
                 /\ error' = ClientError(variant, envKey)
                 /\ failedCall' = "client"
                 /\ trace' = trace \o <<"progress">>
                 /\ UNCHANGED clientKey
            ELSE /\ vpc' = "submitting"
                 /\ clientKey' = GetAIKey(variant, envKey)
                 /\ trace' = trace \o <<"progress", "submit">>
                 /\ UNCHANGED <<error, failedCall>>
    /\ UNCHANGED <<variant, envKey, prompt, operation, fetchUrl, handles,
                   imageHist, result, thrown>>

\* the code after a handle has been received: loop test, then resolution
Continue(op, tr) ==
    IF LoopContinues(op)
    THEN /\ vpc' = "waiting"
         /\ trace' = tr
         /\ UNCHANGED <<fetchUrl, result, error, failedCall>>
    ELSE IF DownloadLink(op) # NoLink
    THEN /\ vpc' = "fetching"
         /\ trace' = tr \o ResolveProgress(variant) \o <<"fetch">>
         /\ fetchUrl' = Append(fetchUrl,
                DownloadUrl(DownloadLink(op),
                            FetchKey(variant, envKey, clientKey)))
         /\ UNCHANGED <<result, error, failedCall>>
    ELSE IF variant = "part_003"
    THEN /\ vpc' = "catch"
         /\ error' = ErrVideoFailed
         /\ failedCall' = "novideo"
         /\ trace' = tr
         /\ UNCHANGED <<fetchUrl, result>>
    ELSE /\ vpc' = "returned"
         /\ result' = Null
         /\ trace' = tr
         /\ UNCHANGED <<fetchUrl, error, failedCall>>

\* generateVideos resolves with an operation handle
SubmitOk ==
    /\ vpc = "submitting"
    /\ \E op \in Handles :
          /\ operation' = op
          /\ handles' = Append(handles, op.done)
          /\ Continue(op, trace \o SubmitProgress(variant))
    /\ UNCHANGED <<variant, envKey, prompt, clientKey, imageHist, thrown>>

\* generateVideos rejects
SubmitFail ==
    /\ vpc = "submitting"
    /\ \E e \in ServiceErrors :
          /\ error' = e
          /\ failedCall' = "submit"
          /\ vpc' = "catch"
    /\ UNCHANGED <<variant, envKey, prompt, operation, clientKey, fetchUrl,
                   handles, trace, imageHist, result, thrown>>

\* a loop that schedules the next status check without awaiting the last
PollEager ==
    /\ vpc \in {"waiting", "polling"}
    /\ PollCalls < MaxPolls
    /\ vpc' = "polling"
    /\ trace' = Append(trace, "poll")
    /\ UNCHANGED <<variant, envKey, prompt, operation, error, failedCall,
                   clientKey, fetchUrl, handles, imageHist, result, thrown>>

\* the timer of the loop body fires and getVideosOperation is called
Poll ==
    /\ vpc = "waiting"
    /\ vpc' = "polling"
    /\ trace' = Append(trace, "poll")
    /\ UNCHANGED <<variant, envKey, prompt, operation, error, failedCall,
                   clientKey, fetchUrl, handles, imageHist, result, thrown>>

\* getVideosOperation resolves with the next handle
PollOk ==
    /\ vpc = "polling"
    /\ \E op \in Handles :
          /\ PollCalls >= MaxPolls => op.done
          /\ operation' = op
          /\ handles' = Append(handles, op.done)
          /\ Continue(op, trace \o PollProgress(variant))
    /\ UNCHANGED <<variant, envKey, prompt, clientKey, imageHist, thrown>>

\* a rejected status check that the loop swallows and repeats
PollFailSwallowed ==
    /\ vpc = "polling"
    /\ \E e \in ServiceErrors :
          /\ error' = e
          /\ failedCall' = "poll"
          /\ vpc' = IF PollCalls < MaxPolls THEN "waiting" ELSE "catch"
    /\ UNCHANGED <<variant, envKey, prompt, operation, clientKey, fetchUrl,
                   handles, trace, imageHist, result, thrown>>

\* getVideosOperation rejects
PollFail ==
    /\ vpc = "polling"
    /\ \E e \in ServiceErrors :
          /\ error' = e
          /\ failedCall' = "poll"
          /\ vpc' = "catch"
    /\ UNCHANGED <<variant, envKey, prompt, operation, clientKey, fetchUrl,
                   handles, trace, imageHist, result, thrown>>

\* fetch and response.blob() resolve; the blob is wrapped as an object URL
FetchOk ==
    /\ vpc = "fetching"
    /\ \E b \in Payloads : result' = BlobUrl(b)
    /\ vpc' = "returned"
    /\ UNCHANGED <<variant, envKey, prompt, operation, error, failedCall,
                   clientKey, fetchUrl, handles, trace, imageHist, thrown>>

\* fetch or response.blob() rejects
FetchFail ==
    /\ vpc = "fetching"
    /\ error' = ErrNetwork
    /\ failedCall' = "fetch"
    /\ vpc' = "catch"
    /\ UNCHANGED <<variant, envKey, prompt, operation, clientKey, fetchUrl,
                   handles, trace, imageHist, result, thrown>>

\* the catch block, up to its throw or to the await inside generateImagePro
Catch ==
    /\ vpc = "catch"
    /\ IF ~FallsBack(variant, error)
       THEN /\ trace' = trace \o CatchProgress(variant)
            /\ thrown' = CatchThrown(variant, error)
            /\ vpc' = "thrown"
            /\ UNCHANGED imageHist
       ELSE /\ trace' = trace \o <<"progress", "image">>
            /\ imagePrompts' =
                  Append(imagePrompts, FallbackPrompt(variant, prompt))
            /\ UNCHANGED imageResult
            /\ IF ClientError(variant, envKey) # NoError
               THEN /\ imageOutcome' = "failed"
                    /\ thrown' =
                          ImageThrown(variant, ClientError(variant, envKey))
                    /\ vpc' = "thrown"
               ELSE /\ imageOutcome' = "pending"
                    /\ vpc' = "fallback"
                    /\ UNCHANGED thrown
    /\ UNCHANGED <<variant, envKey, prompt, operation, error, failedCall,
                   clientKey, fetchUrl, handles, result>>

\* the fallback's generateContent resolves
FallbackOk ==
    /\ vpc = "fallback"
    /\ \E parts \in ImageResponses :
          /\ imageResult' = FirstInline(parts)
          /\ result' = FirstInline(parts)
    /\ imageOutcome' = "ok"
    /\ vpc' = "returned"
    /\ UNCHANGED <<variant, envKey, prompt, operation, error, failedCall,
                   clientKey, fetchUrl, handles, trace, imagePrompts, thrown>>

\* the fallback's generateContent rejects
FallbackFail ==
    /\ vpc = "fallback"
    /\ \E e \in ServiceErrors : thrown' = ImageThrown(variant, e)
    /\ imageOutcome' = "failed"
    /\ vpc' = "thrown"
    /\ UNCHANGED <<variant, envKey, prompt, operation, error, failedCall,
                   clientKey, fetchUrl, handles, trace, imagePrompts,
                   imageResult, result>>

-----------------------------------------------------------------------------
(* The chat components and their conversation store:                       *)
(* components/ChatBot.tsx and components/ThinkingChat.tsx (part_008).      *)

MaxConvs == 2
MaxSends == 3
MaxTime == 1
MaxTextLen == 42

ChatBotTitleLen == 35
ThinkingChatTitleLen == 40

Surfaces == {"ChatBot", "ThinkingChat"}

NoId == 0
Ids == 1..MaxConvs

Digits == <<"0", "1", "2", "3", "4", "5", "6", "7", "8", "9">>

\* a text of n characters, no two neighbours alike
Text(n) == [i \in 1..n |-> Digits[(i % 10) + 1]]

\* what the user may have typed when handleSend runs
Inputs == {Text(1), <<" ">>, <<>>}

Replies == {<<"o", "k">>}
ErrorMessages == {<<"4", "2", "9">>}

UserMsg(t) == [role |-> "user", text |-> t]
ModelMsg(t) == [role |-> "model", text |-> t]

\* "Error: " + err.message
ErrorText(m) == <<"E", "r", "r", "o", "r", ":", " ">> \o m

\* text.slice(0, n)
Slice(t, n) == SubSeq(t, 1, IF Len(t) < n THEN Len(t) ELSE n)

Ellipsis == <<".", ".", ".">>

\* the title fallback of each component
DefaultTitle(sf) ==
    IF sf = "ChatBot"
    THEN <<"C", "o", "n", "v", "e", "r", "s", "a", "t", "i", "o", "n">>
    ELSE <<"N", "e", "w", " ", "D", "i", "s", "c", "u", "s", "s", "i", "o", "n">>

\* a title limit shared by both components
TitleLimitSame(sf) == ThinkingChatTitleLen

\* the length a title is cut to
TitleLimit(sf) ==
    IF sf = "ChatBot" THEN ChatBotTitleLen ELSE ThinkingChatTitleLen

\* msgs[0]?.text.slice(0, L) + (msgs[0]?.text.length > L ? '...' : '')
\*   || fallback
Title(sf, msgs) ==
    LET cut == IF msgs = <<>> THEN S_undefined
               ELSE Slice(msgs[1].text, TitleLimit(sf))
        mark == IF msgs # <<>> /\ Len(msgs[1].text) > TitleLimit(sf)
                THEN Ellipsis ELSE <<>>
    IN IF cut \o mark = <<>> THEN DefaultTitle(sf) ELSE cut \o mark

\* prev.findIndex(c => c.id === id), 0 when there is none
RECURSIVE FindIndexFrom(_, _, _)
FindIndexFrom(convs, id, i) ==
    IF i > Len(convs) THEN 0
    ELSE IF convs[i].id = id THEN i
    ELSE FindIndexFrom(convs, id, i + 1)

FindIndex(convs, id) == FindIndexFrom(convs, id, 1)

\* c placed behind every element of a sorted list that does not sort after it
RECURSIVE InsertDesc(_, _)
InsertDesc(sorted, c) ==
    IF sorted = <<>> THEN <<c>>
    ELSE IF Head(sorted).timestamp >= c.timestamp
    THEN <<Head(sorted)>> \o InsertDesc(Tail(sorted), c)
    ELSE <<c>> \o sorted

RECURSIVE SortFrom(_, _)
SortFrom(sorted, rest) ==
    IF rest = <<>> THEN sorted
    ELSE SortFrom(InsertDesc(sorted, Head(rest)), Tail(rest))

\* a sort that leaves the list as it is
SortDescNone(convs) == convs

\* convs.sort((a, b) => b.timestamp - a.timestamp): stable, descending
SortDesc(convs) == SortFrom(<<>>, convs)

\* JSON.stringify of the collection: objects become member lists
StringifyMsg(m) == <<"role", m.role, "text", m.text>>

StringifyConv(c) ==
    <<"id", c.id, "title", c.title,
      "messages", [i \in DOMAIN c.messages |-> StringifyMsg(c.messages[i])],
      "timestamp", c.timestamp>>

Stringify(convs) ==
    <<"json", [i \in DOMAIN convs |-> StringifyConv(convs[i])]>>

NoItem == <<"none", <<>>>>

\* JSON.parse
ParseMsg(j) == [role |-> j[2], text |-> j[4]]

ParseConv(j) ==
    [id |-> j[2], title |-> j[4],
     messages |-> [i \in DOMAIN j[6] |-> ParseMsg(j[6][i])],
     timestamp |-> j[8]]

Parse(item) == [i \in DOMAIN item[2] |-> ParseConv(item[2][i])]

\* an upsert that inserts a conversation whether or not the id exists
UpsertInsertOnly(sf, prev, id, msgs, t) ==
    SortDesc(<<[id |-> id, title |-> Title(sf, msgs), messages |-> msgs,
                timestamp |-> t]>> \o prev)

\* the value the updater of saveChat / saveConversation returns
Upsert(sf, prev, id, msgs, t) ==
    LET idx == FindIndex(prev, id)
        updated ==
            IF idx > 0
            THEN [prev EXCEPT ![idx] =
                     [@ EXCEPT !.messages = msgs, !.timestamp = t]]
            ELSE <<[id |-> id, title |-> Title(sf, msgs), messages |-> msgs,
                    timestamp |-> t]>> \o prev
    IN SortDesc(updated)

\* a filter that stops at the conversation it removes
FilterTruncating(convs, id) ==
    IF FindIndex(convs, id) = 0 THEN convs
    ELSE SubSeq(convs, 1, FindIndex(convs, id) - 1)

\* prev.filter(c => c.id !== id)
RECURSIVE Filter(_, _)
Filter(convs, id) ==
    IF convs = <<>> THEN <<>>
    ELSE IF Head(convs).id # id THEN <<Head(convs)>> \o Filter(Tail(convs), id)
    ELSE Filter(Tail(convs), id)

\* the effect on [currentId, conversations]
SyncMessages(cid, convs, msgs) ==
    IF cid = NoId THEN <<>>
    ELSE IF FindIndex(convs, cid) > 0 THEN convs[FindIndex(convs, cid)].messages
    ELSE msgs

\* the new user message put in front of the list
NewMessagesPrepend(msgs, userMsg) == <<userMsg>> \o msgs

\* [...messages, userMsg]
NewMessages(msgs, userMsg) == Append(msgs, userMsg)

\* history.map(m => ({role, parts: [{text}]})), then the prompt pushed as a
\* user turn
Contents(history, p) ==
    [i \in DOMAIN history |->
        [role |-> history[i].role, parts |-> <<history[i].text>>]]
    \o <<[role |-> "user", parts |-> <<p>>]>>

\* the history argument handleSend passes to the service: ChatBot calls
\* chatAssistant(currentInput, messages), ThinkingChat calls
\* thinkingChat(input), whose history is then the default []
HistoryArgument(sf, msgs) == IF sf = "ChatBot" THEN msgs ELSE <<>>

NoRequest == <<>>

\* the guard of handleSend on the input
InputAccepted(sf, t) ==
    IF sf = "ChatBot" THEN Trim(t) # <<>> ELSE t # <<>>

NoFlight == [active |-> FALSE, activeId |-> NoId, newMessages |-> <<>>]

NoOp == [op |-> "none", id |-> NoId, msgs |-> <<>>, time |-> 0]

ChatStart ==
    /\ surface \in Surfaces
    /\ conversations = <<>>
    /\ storage = NoItem
    /\ currentId = NoId
    /\ messages = <<>>
    /\ loading = FALSE
    /\ inflight = NoFlight
    /\ request = NoRequest
    /\ now = 0
    /\ nextId = 0
    /\ sends = 0
    /\ lastOp = NoOp
    /\ turns = [i \in Ids |-> <<>>]

\* a handleSend that does not test the loading flag
HandleSendWhileLoading ==
    /\ sends < MaxSends
    /\ \E t \in Inputs :
          /\ InputAccepted(surface, t)
          /\ currentId = NoId => nextId < MaxConvs
          /\ LET newMessages == NewMessages(messages, UserMsg(t))
                 activeId == IF currentId # NoId THEN currentId ELSE nextId + 1
             IN /\ messages' = newMessages
                /\ currentId' = activeId
                /\ nextId' = IF currentId # NoId THEN nextId ELSE nextId + 1
                /\ inflight' = [active |-> TRUE, activeId |-> activeId,
                                newMessages |-> newMessages]
                /\ turns' = [turns EXCEPT ![activeId] = Append(@, UserMsg(t))]
                /\ request' = Contents(HistoryArgument(surface, messages), t)
    /\ loading' = TRUE
    /\ sends' = sends + 1
    /\ UNCHANGED <<surface, conversations, storage, now, lastOp>>

\* handleSend up to the await of the chat request
HandleSend ==
    /\ ~loading
    /\ sends < MaxSends
    /\ \E t \in Inputs :
          /\ InputAccepted(surface, t)
          /\ currentId = NoId => nextId < MaxConvs
          /\ LET newMessages == NewMessages(messages, UserMsg(t))
                 activeId == IF currentId # NoId THEN currentId ELSE nextId + 1
             IN /\ messages' = newMessages
                /\ currentId' = activeId
                /\ nextId' = IF currentId # NoId THEN nextId ELSE nextId + 1
                /\ inflight' = [active |-> TRUE, activeId |-> activeId,
                                newMessages |-> newMessages]
                /\ turns' = [turns EXCEPT ![activeId] = Append(@, UserMsg(t))]
                /\ request' = Contents(HistoryArgument(surface, messages), t)
    /\ loading' = TRUE
    /\ sends' = sends + 1
    /\ UNCHANGED <<surface, conversations, storage, now, lastOp>>

\* the rest of handleSend once the request settled with the model turn m,
\* at time t
Settle(m, t) ==
    LET updatedMessages == Append(inflight.newMessages, m)
        sorted == Upsert(surface, conversations, inflight.activeId,
                         updatedMessages, t)
    IN /\ now' = t
       /\ conversations' = sorted
       /\ storage' = Stringify(sorted)
       /\ messages' = SyncMessages(currentId, sorted, updatedMessages)
       /\ loading' = FALSE
       /\ inflight' = NoFlight
       /\ request' = NoRequest
       /\ turns' = [turns EXCEPT ![inflight.activeId] = Append(@, m)]
       /\ lastOp' = [op |-> "save", id |-> inflight.activeId,
                     msgs |-> updatedMessages, time |-> t]
       /\ UNCHANGED <<surface, currentId, nextId, sends>>

\* the times Date.now() may return next: the clock does not run backwards
Later == {t \in {now, now + 1} : t <= MaxTime}

\* the chat request resolves
ReplyOk ==
    /\ inflight.active
    /\ \E r \in Replies, t \in Later : Settle(ModelMsg(r), t)

\* a catch block that only clears the loading flag
ReplyFailDropped ==
    /\ inflight.active
    /\ loading' = FALSE
    /\ inflight' = NoFlight
    /\ request' = NoRequest
    /\ UNCHANGED <<surface, conversations, storage, currentId, messages, now,
                   nextId, sends, lastOp, turns>>

\* the chat request rejects
ReplyFail ==
    /\ inflight.active
    /\ \E m \in ErrorMessages, t \in Later : Settle(ModelMsg(ErrorText(m)), t)

\* a click on a conversation of the sidebar
SelectConversation ==
    /\ \E i \in DOMAIN conversations :
          /\ conversations[i].id # currentId
          /\ currentId' = conversations[i].id
          /\ messages' = conversations[i].messages
    /\ UNCHANGED <<surface, conversations, storage, loading, inflight,
                   request, now, nextId, sends, lastOp, turns>>

startNewChat ==
    /\ currentId # NoId \/ messages # <<>>
    /\ currentId' = NoId
    /\ messages' = <<>>
    /\ UNCHANGED <<surface, conversations, storage, loading, inflight,
                   request, now, nextId, sends, lastOp, turns>>

\* deleteChat / deleteConversation
deleteChat ==
    /\ \E i \in DOMAIN conversations :
          LET id == conversations[i].id
              filtered == Filter(conversations, id)
              cid == IF currentId = id THEN NoId ELSE currentId
          IN /\ conversations' = filtered
             /\ storage' = Stringify(filtered)
             /\ currentId' = cid
             /\ messages' = SyncMessages(cid, filtered, messages)
                   /\ lastOp' = [op |-> "delete", id |-> id, msgs |-> <<>>,
                           time |-> 0]
             \* the history of an id that can no longer be used is dropped
             /\ turns' = IF inflight.active /\ inflight.activeId = id
                         THEN turns ELSE [turns EXCEPT ![id] = <<>>]
    /\ UNCHANGED <<surface, loading, inflight, request, now, nextId, sends>>

\* the page is loaded again: the mount effect reads the stored collection
Reload ==
    /\ lastOp.op # "load"
    /\ conversations' =
          IF storage = NoItem THEN <<>> ELSE SortDesc(Parse(storage))
    /\ currentId' = NoId
    /\ messages' = <<>>
    /\ loading' = FALSE
    /\ inflight' = NoFlight
    /\ request' = NoRequest
    /\ lastOp' = [op |-> "load", id |-> NoId, msgs |-> <<>>, time |-> 0]
    \* the turn of a request the reload abandons is lost
    /\ turns' = IF inflight.active
                THEN [turns EXCEPT ![inflight.activeId] =
                         SubSeq(@, 1, Len(@) - 1)]
                ELSE turns
    /\ UNCHANGED <<surface, storage, now, nextId, sends>>

-----------------------------------------------------------------------------
(* The request operations of the service module: generateImagePro,         *)
(* editImage and runChat (chatAssistant in lines 142-333 of part_003).     *)

ServiceVersions == {"geminiService", "part_003a", "part_003"}

Calls == {"generateImagePro", "editImage", "runChat"}

\* the substrings handleApiError looks for in JSON.stringify(error)
JsonMarkers ==
    {"429", "quota", "resource_exhausted", "limit: 0", "401",
     "api key not valid", "403", "permission_denied"}

\* the errors a request may be rejected with
ApiErrors ==
    ServiceErrors
    \cup {[message |-> m, msgHas |-> {}, jsonHas |-> j] :
             m \in {"", "boom"},
             j \in {x \in SUBSET JsonMarkers : Cardinality(x) <= 2}}
    \cup {[message |-> "quota exceeded", msgHas |-> {"quota"}, jsonHas |-> {}],
          [message |-> "QUOTA exceeded", msgHas |-> {"quota", "QUOTA"},
           jsonHas |-> {}],
          [message |-> "401 Unauthorized", msgHas |-> {"401"}, jsonHas |-> {}],
          [message |-> "API key not valid", msgHas |-> {"API key not valid"},
           jsonHas |-> {}],
          [message |-> "429 after 401 Unauthorized", msgHas |-> {"429", "401"},
           jsonHas |-> {}],
          [message |-> "401 and 403", msgHas |-> {"401", "403"},
           jsonHas |-> {}]}

\* handleApiError of lines 19-29 of part_003: it inspects error.message
handleApiErrorByMessage(e) ==
    IF Includes(e, "429") \/ Includes(e, "quota") \/ Includes(e, "exhausted")
    THEN "QUOTA_EXHAUSTED"
    ELSE IF Includes(e, "401") \/ Includes(e, "API key not valid")
    THEN "INVALID_KEY"
    ELSE IF e.message # "" THEN e.message
    ELSE "An unexpected error occurred."

\* the message thrown for API_KEY_NOT_FOUND by each operation of part_003
KeyMissingText(c) ==
    CASE c = "generateImagePro" -> "Activation Required"
      [] c = "editImage" -> "Connection lost"
      [] c = "runChat" -> "Chat Offline"

\* message of the Error the catch block of operation c throws for e
OperationThrown(v, c, e) ==
    CASE v = "geminiService" -> handleApiError(e)
      [] v = "part_003a" -> handleApiErrorByMessage(e)
      [] v = "part_003" ->
            IF Includes(e, "API_KEY_NOT_FOUND") THEN KeyMissingText(c)
            ELSE e.message

\* the texts among those above that hold "QUOTA"; a message passed through
\* holds it when the error's own message does
QuotaTexts == {"QUOTA_REACHED", "QUOTA_EXHAUSTED"}

\* error.includes("QUOTA") of the error panel, for the text thrown for e
ShowsSwitchKey(text, e) ==
    \/ text \in QuotaTexts
    \/ text = e.message /\ Includes(e, "QUOTA")

\* candidates of a generateContent response, each with its parts
ImageAnswers == {<<>>} \cup {<<parts>> : parts \in ImageResponses}

\* response.candidates?.[0]?.content?.parts || []
Parts(candidates) == IF candidates = <<>> THEN <<>> ELSE candidates[1]

\* response.text of a chat response
ChatAnswers == {<<>>, <<"o", "k">>}

NoResponseText(v) ==
    IF v = "part_003"
    THEN <<"I processed your request but have no response text.">>
    ELSE <<"No response received.">>

\* response.text || fallback
ChatText(v, text) == IF text = <<>> THEN NoResponseText(v) ELSE text

TextResult(text) == [kind |-> "text", val |-> text]

\* contents of the request of each operation
RequestContents(c, a) ==
    IF c = "runChat" THEN Contents(a.history, a.prompt)
    ELSE <<[role |-> "user", parts |-> <<a.prompt>>]>>

Histories == {<<>>, <<UserMsg(Text(2)), ModelMsg(<<"o", "k">>)>>}

Arguments(c) ==
    [prompt : {Text(1)},
     history : IF c = "runChat" THEN Histories ELSE {<<>>}]

ServiceKeys ==
    {Undefined, Str(<<>>), Str(S_undefined), Str(S_null), Str(<<" ">>),
     Str(<<"K">>)}

NoAnswer == [kind |-> "none"]

\* a request that goes out twice
SendTwice(reqs, r) == reqs \o <<r, r>>

\* await ai.models.generateContent(r)
Send(reqs, r) == Append(reqs, r)

ServiceIdle ==
    /\ call = "generateImagePro"
    /\ args = [prompt |-> <<>>, history |-> <<>>]
    /\ spc = "idle"
    /\ requests = <<>>
    /\ answer = NoAnswer
    /\ svcResult = Null
    /\ svcErrors = <<>>

ServiceStart ==
    /\ call \in Calls
    /\ args \in Arguments(call)
    /\ spc = "start"
    /\ requests = <<>>
    /\ answer = NoAnswer
    /\ svcResult = Null
    /\ svcErrors = <<>>

\* the try block up to the await of generateContent
Invoke ==
    /\ spc = "start"
    /\ IF ClientError(variant, envKey) # NoError
       THEN /\ spc' = "thrown"
            /\ svcErrors' =
                  Append(svcErrors,
                         OperationThrown(variant, call,
                                         ClientError(variant, envKey)))
            /\ UNCHANGED requests
       ELSE /\ spc' = "requesting"
            /\ requests' =
                  Send(requests,
                       [op |-> call, key |-> GetAIKey(variant, envKey),
                        contents |-> RequestContents(call, args)])
            /\ UNCHANGED svcErrors
    /\ UNCHANGED <<call, args, answer, svcResult>>

\* generateContent resolves for an image operation
ImageOk ==
    /\ spc = "requesting"
    /\ call \in {"generateImagePro", "editImage"}
    /\ \E candidates \in ImageAnswers :
          /\ answer' = [kind |-> "image", candidates |-> candidates]
          /\ svcResult' = FirstInline(Parts(candidates))
    /\ spc' = "returned"
    /\ UNCHANGED <<call, args, requests, svcErrors>>

\* generateContent resolves for runChat
ChatOk ==
    /\ spc = "requesting"
    /\ call = "runChat"
    /\ \E text \in ChatAnswers :
          /\ answer' = [kind |-> "text", text |-> text]
          /\ svcResult' = TextResult(ChatText(variant, text))
    /\ spc' = "returned"
    /\ UNCHANGED <<call, args, requests, svcErrors>>

\* generateContent rejects: the catch block throws
RequestFail ==
    /\ spc = "requesting"
    /\ \E e \in ApiErrors :
          /\ answer' = [kind |-> "error", error |-> e]
          /\ svcErrors' = Append(svcErrors, OperationThrown(variant, call, e))
    /\ spc' = "thrown"
    /\ UNCHANGED <<call, args, requests, svcResult>>

-----------------------------------------------------------------------------
(* The credential probes: checkKeyValidity of App.tsx, getValidApiKey of   *)
(* the service (part_003) and the status shown by SystemInfo.tsx.          *)

MaxKeyLen == 2

Resolvers == {"checkKeyValidity", "getValidApiKey", "SystemInfo"}

\* the versions of the resolver of the application shell: checkKeyValidity
\* of App.tsx and checkKeyStatus of its earlier versions part_000, part_001
ResolveVersions == {"checkKeyValidity", "checkKeyStatus000", "checkKeyStatus001"}

\* window.aistudio is missing, or hasSelectedApiKey resolves true or false,
\* or rejects
Hosts == {"none", "selected", "unselected", "rejects"}

KeyChars == {" ", "\t", "k"}

KeyStrings ==
    UNION {[1..n -> KeyChars] : n \in 0..MaxKeyLen}
    \cup {S_undefined, S_null, <<" ">> \o S_null}

EnvKeys == {Undefined} \cup {Str(s) : s \in KeyStrings}

\* checkKeyValidity: isEnvKeyValid
IsEnvKeyValid(k) ==
    Truthy(k) /\ k.str # S_undefined /\ k.str # S_null /\ Trim(k.str) # <<>>

\* SystemInfo: isSelected, on apiKey = process.env.API_KEY || ''
IsSelected(k) ==
    LET apiKey == IF Truthy(k) THEN k.str ELSE <<>>
    IN apiKey # <<>> /\ apiKey # S_undefined

Report(b) == IF b THEN "Present" ELSE "Absent"

CredStart ==
    /\ resolver \in Resolvers
    /\ host \in Hosts
    /\ cpc = "start"
    /\ verdict = "pending"
    /\ asked = FALSE

CredIdle ==
    /\ resolver = "checkKeyValidity"
    /\ host = "none"
    /\ cpc = "idle"
    /\ verdict = "pending"
    /\ asked = FALSE

\* checkKeyValidity up to its return or to the await of hasSelectedApiKey
checkKeyValidity ==
    /\ resolver = "checkKeyValidity"
    /\ cpc = "start"
    /\ IF IsEnvKeyValid(envKey)
       THEN cpc' = "done" /\ verdict' = Report(TRUE) /\ UNCHANGED asked
       ELSE IF host # "none"
       THEN cpc' = "asking" /\ asked' = TRUE /\ UNCHANGED verdict
       ELSE cpc' = "done" /\ verdict' = Report(FALSE) /\ UNCHANGED asked
    /\ UNCHANGED <<resolver, host>>

\* checkKeyStatus of part_000: the host is asked first, and only when there
\* is a host can the application become ready
checkKeyStatus000 ==
    /\ resolver = "checkKeyStatus000"
    /\ cpc = "start"
    /\ IF host # "none"
       THEN cpc' = "asking" /\ asked' = TRUE /\ UNCHANGED verdict
       ELSE cpc' = "done" /\ verdict' = Report(FALSE) /\ UNCHANGED asked
    /\ UNCHANGED <<resolver, host>>

\* checkKeyStatus of part_001:
\* !!process.env.API_KEY || (window.aistudio && await hasSelectedApiKey())
checkKeyStatus001 ==
    /\ resolver = "checkKeyStatus001"
    /\ cpc = "start"
    /\ IF Truthy(envKey)
       THEN cpc' = "done" /\ verdict' = Report(TRUE) /\ UNCHANGED asked
       ELSE IF host # "none"
       THEN cpc' = "asking" /\ asked' = TRUE /\ UNCHANGED verdict
       ELSE cpc' = "done" /\ verdict' = Report(FALSE) /\ UNCHANGED asked
    /\ UNCHANGED <<resolver, host>>

\* what the resolver makes of the settled hasSelectedApiKey call; a
\* rejection leaves the application not ready in every version
HostVerdict(r, h, k) ==
    IF h = "rejects" THEN FALSE
    ELSE IF r = "checkKeyStatus000" THEN h = "selected" \/ Truthy(k)
    ELSE h = "selected"

\* hasSelectedApiKey settles
HostAnswers ==
    /\ cpc = "asking"
    /\ cpc' = "done"
    /\ verdict' = Report(HostVerdict(resolver, host, envKey))
    /\ UNCHANGED <<resolver, host, asked>>

\* getValidApiKey returns the key or throws API_KEY_NOT_FOUND
getValidApiKey ==
    /\ resolver = "getValidApiKey"
    /\ cpc = "start"
    /\ cpc' = "done"
    /\ verdict' = Report(~KeyRejected(envKey))
    /\ UNCHANGED <<resolver, host, asked>>

\* SystemInfo renders the connection status
SystemInfo ==
    /\ resolver = "SystemInfo"
    /\ cpc = "start"
    /\ cpc' = "done"
    /\ verdict' = Report(IsSelected(envKey))
    /\ UNCHANGED <<resolver, host, asked>>

-----------------------------------------------------------------------------
(* The camera of the image editor: components/ImageEditor.tsx (part_007).  *)

MaxStreams == 3

NoStream == 0

EditorStart ==
    [isCameraActive |-> FALSE, streamRef |-> NoStream, live |-> {},
     sourceImage |-> FALSE, isCropping |-> FALSE, cropBox |-> FALSE,
     pending |-> 0, opened |-> 0]

\* a click on Camera: startCamera up to the await of getUserMedia
startCamera ==
    /\ ~editor.isCropping /\ ~editor.isCameraActive /\ ~editor.sourceImage
    /\ editor.opened + editor.pending < MaxStreams
    /\ editor' = [editor EXCEPT !.pending = @ + 1]

\* getUserMedia resolves with a new stream
CameraGranted ==
    /\ editor.pending > 0
    /\ editor' = [editor EXCEPT !.pending = @ - 1,
                                !.opened = @ + 1,
                                !.live = @ \cup {editor.opened + 1},
                                !.streamRef = editor.opened + 1,
                                !.isCameraActive = TRUE,
                                !.sourceImage = FALSE,
                                !.isCropping = FALSE]

\* getUserMedia rejects: the catch block alerts
CameraDenied ==
    /\ editor.pending > 0
    /\ editor' = [editor EXCEPT !.pending = @ - 1]

\* the state stopCamera leaves
Stopped(ed) ==
    [ed EXCEPT !.live = IF ed.streamRef # NoStream
                        THEN @ \ {ed.streamRef} ELSE @,
               !.streamRef = NoStream,
               !.isCameraActive = FALSE]

\* a click on Cancel below the camera picture
stopCamera ==
    /\ editor.isCameraActive
    /\ editor' = Stopped(editor)

\* a click on Capture; the video element is mounted while the camera is
\* active
capturePhoto ==
    /\ editor.isCameraActive
    /\ editor' = Stopped([editor EXCEPT !.sourceImage = TRUE])

\* a file chosen from the upload placeholder has been read
handleFileChange ==
    /\ ~editor.isCameraActive /\ ~editor.sourceImage
    /\ editor' = [editor EXCEPT !.sourceImage = TRUE, !.cropBox = FALSE,
                                !.isCropping = FALSE]

\* a click on Crop
startCrop ==
    /\ ~editor.isCropping /\ editor.sourceImage
    /\ editor' = [editor EXCEPT !.isCropping = TRUE, !.cropBox = FALSE,
                                !.isCameraActive = FALSE]

\* a drag over the image selects an area
handleMouseMove ==
    /\ editor.isCropping /\ ~editor.cropBox
    /\ ~editor.isCameraActive /\ editor.sourceImage
    /\ editor' = [editor EXCEPT !.cropBox = TRUE]

cancelCrop ==
    /\ editor.isCropping
    /\ editor' = [editor EXCEPT !.isCropping = FALSE, !.cropBox = FALSE]

\* a click on Apply Crop, and the onload of the image it creates
applyCrop ==
    /\ editor.isCropping /\ editor.cropBox /\ editor.sourceImage
    /\ editor' = [editor EXCEPT !.isCropping = FALSE, !.cropBox = FALSE]

\* a click on Reset
ResetEditor ==
    /\ ~editor.isCropping
    /\ editor.sourceImage \/ editor.isCameraActive
    /\ editor' = [editor EXCEPT !.sourceImage = FALSE,
                                !.isCameraActive = FALSE]

-----------------------------------------------------------------------------
(* The loading flag of the generation views: ImageGenerator (part_012),    *)
(* ImageEditor (part_007) and components/VideoGenerator.tsx.               *)

MaxRuns == 2

Views == {"ImageGenerator", "ImageEditor", "VideoGenerator"}

PanelStart(v) ==
    [view |-> v, loading |-> FALSE, pc |-> "idle", result |-> Null,
     error |-> "", runs |-> 0]

\* the handler up to the await of the service call: setLoading(true),
\* setError(null); the button is disabled while loading
Started(pn) ==
    [pn EXCEPT !.loading = TRUE, !.error = "", !.pc = "awaiting",
               !.runs = @ + 1]

\* ImageGenerator.handleGenerate, with a prompt
handleGenerate ==
    /\ panel.view = "ImageGenerator"
    /\ ~panel.loading /\ panel.runs < MaxRuns
    /\ panel' = Started(panel)

\* ImageEditor.handleEdit, with a source image and a prompt or a filter
handleEdit ==
    /\ panel.view = "ImageEditor"
    /\ ~panel.loading /\ panel.runs < MaxRuns
    /\ panel' = Started(panel)

\* VideoGenerator.handleGenerateVideo, with a source image
handleGenerateVideo ==
    /\ panel.view = "VideoGenerator"
    /\ ~panel.loading /\ panel.runs < MaxRuns
    /\ panel' = Started(panel)

ViewResults == {Null, DataUrl("D1"), BlobUrl("B1")}

ViewErrors == {"QUOTA_REACHED", "Failed to fetch"}

\* the service call resolves: the try block stores the result, finally
\* clears the flag
ViewReturn ==
    /\ panel.pc = "awaiting"
    /\ \E r \in ViewResults :
          panel' = [panel EXCEPT !.result = r, !.loading = FALSE,
                                 !.pc = "idle"]

\* a handler whose catch block is not followed by a finally block
ViewThrowStuck ==
    /\ panel.pc = "awaiting"
    /\ \E e \in ViewErrors :
          panel' = [panel EXCEPT !.error = e, !.pc = "idle"]

\* the service call rejects: the catch block stores the message, finally
\* clears the flag
ViewThrow ==
    /\ panel.pc = "awaiting"
    /\ \E e \in ViewErrors :
          panel' = [panel EXCEPT !.error = e, !.loading = FALSE,
                                 !.pc = "idle"]

-----------------------------------------------------------------------------
(* The video view with the fallback picture: VideoGenerator of part_009,   *)
(* which runs generateVideoVeo and shows what it resolves to.              *)

MotionStart ==
    [resultUrl |-> Null, isRealVideo |-> FALSE, loading |-> FALSE,
     origin |-> "none", runs |-> 0]

\* a test that takes every address for a video
StartsWithAny(url) == url # Null

\* url?.startsWith('blob:')
StartsWithBlob(url) == url.kind = "blob"

\* history: where the value the run resolved to came from
Origin ==
    IF imageOutcome = "ok" THEN "fallback"
    ELSE IF fetchUrl # <<>> /\ failedCall = "none" THEN "resolved"
    ELSE "none"

\* handleGenerateMotion up to the call of generateVideoVeo; the key dialog,
\* when it is opened, has settled
handleGenerateMotion ==
    /\ ~motion.loading
    /\ vpc = "idle"
    /\ motion.runs < MaxRuns
    /\ motion' = [motion EXCEPT !.loading = TRUE, !.runs = @ + 1]
    /\ prompt' \in Prompts
    /\ vpc' = "start"
    /\ operation' = [done |-> FALSE, uris |-> <<>>]
    /\ error' = NoError
    /\ failedCall' = "none"
    /\ clientKey' = Undefined
    /\ fetchUrl' = <<>>
    /\ handles' = <<>>
    /\ trace' = <<>>
    /\ imagePrompts' = <<>>
    /\ imageOutcome' = "none"
    /\ imageResult' = Null
    /\ result' = Null
    /\ thrown' = ""
    /\ UNCHANGED <<variant, envKey>>

\* generateVideoVeo resolved: setResultUrl, setIsRealVideo, setLoading(false)
MotionResolved ==
    /\ motion.loading
    /\ vpc = "returned"
    /\ motion' = [motion EXCEPT !.resultUrl = result,
                                !.isRealVideo = StartsWithBlob(result),
                                !.origin = Origin,
                                !.loading = FALSE]
    /\ vpc' = "idle"
    /\ UNCHANGED <<variant, envKey, prompt, operation, error, failedCall,
                   clientKey, fetchUrl, handles, trace, imagePrompts,
                   imageOutcome, imageResult, result, thrown>>

\* generateVideoVeo rejected: the catch block reports, finally clears the
\* flag
MotionRejected ==
    /\ motion.loading
    /\ vpc = "thrown"
    /\ motion' = [motion EXCEPT !.loading = FALSE]
    /\ vpc' = "idle"
    /\ UNCHANGED <<variant, envKey, prompt, operation, error, failedCall,
                   clientKey, fetchUrl, handles, trace, imagePrompts,
                   imageOutcome, imageResult, result, thrown>>

\* a new source image has been read: the result is cleared
MotionFileChange ==
    /\ motion.resultUrl # Null
    /\ motion' = [motion EXCEPT !.resultUrl = Null]
    /\ UNCHANGED videoVars

-----------------------------------------------------------------------------
(* The connection flag of the application shell: App.tsx (isConnected,     *)
(* probe checkKeyValidity) and part_000 (isReady, probe checkKeyStatus).   *)

MaxSelections == 2

ShellVersions == {"checkKeyValidity", "checkKeyStatus000"}

\* unverified: the flag was set by the selection handler and no probe that
\* started after the dialog settled has set it since;
\* fresh: the running probe started after the last dialog settled
ShellStart(r) ==
    [isConnected |-> r = "checkKeyValidity", dialog |-> "closed",
     unverified |-> FALSE, fresh |-> TRUE, selections |-> 0]

\* the interval timer of the heartbeat effect of App.tsx calls performCheck
Heartbeat ==
    /\ resolver = "checkKeyValidity"
    /\ cpc = "idle"
    /\ cpc' = "start"
    /\ verdict' = "pending"
    /\ asked' = FALSE
    /\ shell' = [shell EXCEPT !.fresh = TRUE]
    /\ UNCHANGED <<resolver, host>>

\* the probe has settled: performCheck sets the flag to its result, the
\* checkKeyStatus of part_000 sets the flag only when the result is true
performCheck ==
    /\ cpc = "done"
    /\ cpc' = "idle"
    /\ shell' = [shell EXCEPT
          !.isConnected = IF resolver = "checkKeyValidity"
                          THEN verdict = Report(TRUE)
                          ELSE @ \/ verdict = Report(TRUE),
          !.unverified = IF shell.fresh THEN FALSE ELSE @]
    /\ UNCHANGED <<resolver, host, verdict, asked>>

\* handleConnect / handleActivate up to the await of openSelectKey; part_000
\* renders no button while its first check runs
handleConnect ==
    /\ host # "none"
    /\ shell.dialog = "closed"
    /\ shell.selections < MaxSelections
    /\ resolver = "checkKeyStatus000" => cpc = "idle"
    /\ shell' = [shell EXCEPT !.dialog = "open", !.selections = @ + 1]
    /\ UNCHANGED credVars

\* openSelectKey resolves, with a key selected or not: the flag is set
SelectionSettles ==
    /\ shell.dialog = "open"
    /\ host' \in {"selected", "unselected"}
    /\ shell' = [shell EXCEPT !.dialog = "closed", !.isConnected = TRUE,
                              !.unverified = TRUE, !.fresh = FALSE]
    /\ UNCHANGED <<resolver, cpc, verdict, asked>>

-----------------------------------------------------------------------------
(* The specifications: one component runs, the others are at rest.         *)

UiIdle ==
    /\ editor = EditorStart
    /\ panel = PanelStart("ChatBot")
    /\ motion = MotionStart
    /\ shell = ShellStart("checkKeyValidity")

VideoIdle ==
    /\ variant = "geminiService"
    /\ prompt = ""
    /\ vpc = "idle"
    /\ operation = [done |-> FALSE, uris |-> <<>>]
    /\ error = NoError
    /\ failedCall = "none"
    /\ clientKey = Undefined
    /\ fetchUrl = <<>>
    /\ handles = <<>>
    /\ trace = <<>>
    /\ imagePrompts = <<>>
    /\ imageOutcome = "none"
    /\ imageResult = Null
    /\ result = Null
    /\ thrown = ""

ChatIdle ==
    /\ surface = "ChatBot"
    /\ conversations = <<>>
    /\ storage = NoItem
    /\ currentId = NoId
    /\ messages = <<>>
    /\ loading = FALSE
    /\ inflight = NoFlight
    /\ request = NoRequest
    /\ now = 0
    /\ nextId = 0
    /\ sends = 0
    /\ lastOp = NoOp
    /\ turns = [i \in Ids |-> <<>>]

VideoInit == VideoStart /\ ChatIdle /\ CredIdle /\ ServiceIdle /\ UiIdle

VideoNext ==
    \/ Submit /\ UNCHANGED <<chatVars, credVars, serviceVars, uiVars>>
    \/ SubmitOk /\ UNCHANGED <<chatVars, credVars, serviceVars, uiVars>>
    \/ SubmitFail /\ UNCHANGED <<chatVars, credVars, serviceVars, uiVars>>
    \/ Poll /\ UNCHANGED <<chatVars, credVars, serviceVars, uiVars>>
    \/ PollOk /\ UNCHANGED <<chatVars, credVars, serviceVars, uiVars>>
    \/ PollFail /\ UNCHANGED <<chatVars, credVars, serviceVars, uiVars>>
    \/ FetchOk /\ UNCHANGED <<chatVars, credVars, serviceVars, uiVars>>
    \/ FetchFail /\ UNCHANGED <<chatVars, credVars, serviceVars, uiVars>>
    \/ Catch /\ UNCHANGED <<chatVars, credVars, serviceVars, uiVars>>
    \/ FallbackOk /\ UNCHANGED <<chatVars, credVars, serviceVars, uiVars>>
    \/ FallbackFail /\ UNCHANGED <<chatVars, credVars, serviceVars, uiVars>>

SpecVideo == VideoInit /\ [][VideoNext]_vars

\* the event loop runs every continuation that is ready, the timer of the
\* loop fires and the service settles every call
SpecVideoFair == VideoInit /\ [][VideoNext]_vars /\ WF_vars(VideoNext)

ChatInit ==
    /\ ChatStart /\ VideoIdle /\ envKey = Undefined /\ CredIdle /\ ServiceIdle
    /\ UiIdle

ChatNext ==
    \/ HandleSend /\ UNCHANGED <<videoVars, credVars, serviceVars, uiVars>>
    \/ ReplyOk /\ UNCHANGED <<videoVars, credVars, serviceVars, uiVars>>
    \/ ReplyFail /\ UNCHANGED <<videoVars, credVars, serviceVars, uiVars>>
    \/ SelectConversation /\ UNCHANGED <<videoVars, credVars, serviceVars, uiVars>>
    \/ startNewChat /\ UNCHANGED <<videoVars, credVars, serviceVars, uiVars>>
    \/ deleteChat /\ UNCHANGED <<videoVars, credVars, serviceVars, uiVars>>
    \/ Reload /\ UNCHANGED <<videoVars, credVars, serviceVars, uiVars>>

SpecChat == ChatInit /\ [][ChatNext]_vars

\* the first message of a new conversation awaits its reply
TitleInit ==
    /\ UiIdle
    /\ VideoIdle
    /\ envKey = Undefined
    /\ CredIdle
    /\ ServiceIdle
    /\ surface \in Surfaces
    /\ conversations = <<>>
    /\ storage = NoItem
    /\ currentId = 1
    /\ \E n \in 1..MaxTextLen :
          /\ messages = <<UserMsg(Text(n))>>
          /\ inflight = [active |-> TRUE, activeId |-> 1,
                         newMessages |-> <<UserMsg(Text(n))>>]
          /\ turns = [i \in Ids |-> IF i = 1 THEN <<UserMsg(Text(n))>> ELSE <<>>]
          /\ request = Contents(<<>>, Text(n))
    /\ loading = TRUE
    /\ now = 0
    /\ nextId = 1
    /\ sends = 1
    /\ lastOp = NoOp

TitleNext ==
    \/ ReplyOk /\ UNCHANGED <<videoVars, credVars, serviceVars, uiVars>>
    \/ ReplyFail /\ UNCHANGED <<videoVars, credVars, serviceVars, uiVars>>

SpecTitle == TitleInit /\ [][TitleNext]_vars

CredInit ==
    /\ CredStart /\ VideoIdle /\ envKey \in EnvKeys /\ ChatIdle /\ ServiceIdle
    /\ UiIdle

CredNext ==
    \/ checkKeyValidity /\ UNCHANGED <<videoVars, chatVars, serviceVars, uiVars>>
    \/ HostAnswers /\ UNCHANGED <<videoVars, chatVars, serviceVars, uiVars>>
    \/ getValidApiKey /\ UNCHANGED <<videoVars, chatVars, serviceVars, uiVars>>
    \/ SystemInfo /\ UNCHANGED <<videoVars, chatVars, serviceVars, uiVars>>

SpecCred == CredInit /\ [][CredNext]_vars

\* one version of the shell's resolver runs
ResolveInit ==
    /\ UiIdle
    /\ resolver \in ResolveVersions
    /\ host \in Hosts
    /\ cpc = "start"
    /\ verdict = "pending"
    /\ asked = FALSE
    /\ VideoIdle
    /\ envKey \in EnvKeys
    /\ ChatIdle
    /\ ServiceIdle

ResolveNext ==
    \/ checkKeyValidity /\ UNCHANGED <<videoVars, chatVars, serviceVars, uiVars>>
    \/ checkKeyStatus000 /\ UNCHANGED <<videoVars, chatVars, serviceVars, uiVars>>
    \/ checkKeyStatus001 /\ UNCHANGED <<videoVars, chatVars, serviceVars, uiVars>>
    \/ HostAnswers /\ UNCHANGED <<videoVars, chatVars, serviceVars, uiVars>>

SpecResolve == ResolveInit /\ [][ResolveNext]_vars

\* one request operation of the service module runs
ServiceInit ==
    /\ UiIdle
    /\ variant \in ServiceVersions
    /\ envKey \in ServiceKeys
    /\ prompt = ""
    /\ vpc = "idle"
    /\ operation = [done |-> FALSE, uris |-> <<>>]
    /\ error = NoError
    /\ failedCall = "none"
    /\ clientKey = Undefined
    /\ fetchUrl = <<>>
    /\ handles = <<>>
    /\ trace = <<>>
    /\ imagePrompts = <<>>
    /\ imageOutcome = "none"
    /\ imageResult = Null
    /\ result = Null
    /\ thrown = ""
    /\ ChatIdle
    /\ CredIdle
    /\ ServiceStart

ServiceNext ==
    \/ Invoke /\ UNCHANGED <<videoVars, chatVars, credVars, uiVars>>
    \/ ImageOk /\ UNCHANGED <<videoVars, chatVars, credVars, uiVars>>
    \/ ChatOk /\ UNCHANGED <<videoVars, chatVars, credVars, uiVars>>
    \/ RequestFail /\ UNCHANGED <<videoVars, chatVars, credVars, uiVars>>

SpecService == ServiceInit /\ [][ServiceNext]_vars

\* the image editor is open
CameraInit ==
    /\ VideoIdle /\ envKey = Undefined /\ ChatIdle /\ CredIdle /\ ServiceIdle
    /\ editor = EditorStart
    /\ panel = PanelStart("ChatBot")
    /\ motion = MotionStart
    /\ shell = ShellStart("checkKeyValidity")

restOfEditor ==
    <<videoVars, chatVars, credVars, serviceVars, panel, motion, shell>>

CameraNext ==
    \/ startCamera /\ UNCHANGED restOfEditor
    \/ CameraGranted /\ UNCHANGED restOfEditor
    \/ CameraDenied /\ UNCHANGED restOfEditor
    \/ stopCamera /\ UNCHANGED restOfEditor
    \/ capturePhoto /\ UNCHANGED restOfEditor
    \/ handleFileChange /\ UNCHANGED restOfEditor
    \/ startCrop /\ UNCHANGED restOfEditor
    \/ handleMouseMove /\ UNCHANGED restOfEditor
    \/ cancelCrop /\ UNCHANGED restOfEditor
    \/ applyCrop /\ UNCHANGED restOfEditor
    \/ ResetEditor /\ UNCHANGED restOfEditor

SpecCamera == CameraInit /\ [][CameraNext]_vars

\* one view that runs a service operation is open
ViewsInit ==
    /\ VideoIdle /\ envKey = Undefined /\ CredIdle /\ ServiceIdle
    /\ panel \in {PanelStart(v) : v \in Views \cup {"ChatBot"}}
    /\ IF panel.view = "ChatBot"
       THEN ChatStart /\ surface = "ChatBot"
       ELSE ChatIdle
    /\ editor = EditorStart
    /\ motion = MotionStart
    /\ shell = ShellStart("checkKeyValidity")

restOfPanel ==
    <<videoVars, chatVars, credVars, serviceVars, editor, motion, shell>>

restOfChat == <<videoVars, credVars, serviceVars, uiVars>>

ViewsNext ==
    \/ handleGenerate /\ UNCHANGED restOfPanel
    \/ handleEdit /\ UNCHANGED restOfPanel
    \/ handleGenerateVideo /\ UNCHANGED restOfPanel
    \/ ViewReturn /\ UNCHANGED restOfPanel
    \/ ViewThrow /\ UNCHANGED restOfPanel
    \/ panel.view = "ChatBot" /\ HandleSend /\ UNCHANGED restOfChat
    \/ panel.view = "ChatBot" /\ ReplyOk /\ UNCHANGED restOfChat
    \/ panel.view = "ChatBot" /\ ReplyFail /\ UNCHANGED restOfChat
    \/ panel.view = "ChatBot" /\ SelectConversation /\ UNCHANGED restOfChat
    \/ panel.view = "ChatBot" /\ startNewChat /\ UNCHANGED restOfChat
    \/ panel.view = "ChatBot" /\ deleteChat /\ UNCHANGED restOfChat
    \/ panel.view = "ChatBot" /\ Reload /\ UNCHANGED restOfChat

SpecViews == ViewsInit /\ [][ViewsNext]_vars

\* the video view of part_009 is open, no run has started
MotionInit ==
    /\ variant \in Variants
    /\ envKey \in {Undefined, Str(S_undefined), Str(<<"K">>)}
    /\ prompt = ""
    /\ vpc = "idle"
    /\ operation = [done |-> FALSE, uris |-> <<>>]
    /\ error = NoError
    /\ failedCall = "none"
    /\ clientKey = Undefined
    /\ fetchUrl = <<>>
    /\ handles = <<>>
    /\ trace = <<>>
    /\ imagePrompts = <<>>
    /\ imageOutcome = "none"
    /\ imageResult = Null
    /\ result = Null
    /\ thrown = ""
    /\ ChatIdle /\ CredIdle /\ ServiceIdle
    /\ editor = EditorStart
    /\ panel = PanelStart("ChatBot")
    /\ motion = MotionStart
    /\ shell = ShellStart("checkKeyValidity")

restOfMotion == <<chatVars, credVars, serviceVars, editor, panel, shell>>

restOfVideo == <<chatVars, credVars, serviceVars, uiVars>>

MotionNext ==
    \/ handleGenerateMotion /\ UNCHANGED restOfMotion
    \/ MotionResolved /\ UNCHANGED restOfMotion
    \/ MotionRejected /\ UNCHANGED restOfMotion
    \/ MotionFileChange /\ UNCHANGED restOfMotion
    \/ Submit /\ UNCHANGED restOfVideo
    \/ SubmitOk /\ UNCHANGED restOfVideo
    \/ SubmitFail /\ UNCHANGED restOfVideo
    \/ Poll /\ UNCHANGED restOfVideo
    \/ PollOk /\ UNCHANGED restOfVideo
    \/ PollFail /\ UNCHANGED restOfVideo
    \/ FetchOk /\ UNCHANGED restOfVideo
    \/ FetchFail /\ UNCHANGED restOfVideo
    \/ Catch /\ UNCHANGED restOfVideo
    \/ FallbackOk /\ UNCHANGED restOfVideo
    \/ FallbackFail /\ UNCHANGED restOfVideo

SpecMotion == MotionInit /\ [][MotionNext]_vars

\* the shell mounts and its first probe starts
ShellInit ==
    /\ VideoIdle /\ envKey \in EnvKeys /\ ChatIdle /\ ServiceIdle
    /\ resolver \in ShellVersions
    /\ host \in Hosts
    /\ cpc = "start"
    /\ verdict = "pending"
    /\ asked = FALSE
    /\ editor = EditorStart
    /\ panel = PanelStart("ChatBot")
    /\ motion = MotionStart
    /\ shell = ShellStart(resolver)

restOfShell ==
    <<videoVars, chatVars, serviceVars, editor, panel, motion>>

restOfCred == <<videoVars, chatVars, serviceVars, uiVars>>

\* the steps of a probe
ShellProbe ==
    \/ Heartbeat /\ UNCHANGED restOfShell
    \/ checkKeyValidity /\ UNCHANGED restOfCred
    \/ checkKeyStatus000 /\ UNCHANGED restOfCred
    \/ HostAnswers /\ UNCHANGED restOfCred
    \/ performCheck /\ UNCHANGED restOfShell

ShellNext ==
    \/ ShellProbe
    \/ handleConnect /\ UNCHANGED restOfShell
    \/ SelectionSettles /\ UNCHANGED restOfShell

\* the timer of the heartbeat fires, the event loop runs every continuation
\* that is ready and hasSelectedApiKey settles; the dialog may stay open
SpecShell == ShellInit /\ [][ShellNext]_vars /\ WF_vars(ShellProbe)

-----------------------------------------------------------------------------
(* Claims about the media workflow, checked under SpecVideo.               *)

Terminated == vpc \in {"returned", "thrown"}

Contains(seq, x) == \E i \in DOMAIN seq : seq[i] = x

LastHandleDone == handles # <<>> /\ handles[Len(handles)]

\* C1: whenever the submission or a status check throws a permission
\* error, the run calls generateImagePro exactly once, with a prompt that
\* holds the caller's prompt, and resolves to that image's artifact instead
\* of raising.
C1_FallbackSubstitution ==
    (Terminated /\ failedCall \in {"submit", "poll"} /\ error = ErrPermission)
    => /\ Len(imagePrompts) = 1
       /\ Contains(imagePrompts[1], prompt)
       /\ imageOutcome = "ok" => (vpc = "returned" /\ result = imageResult)

\* C2: a run that ends by throwing has called the fallback generateImagePro
\* before, and that call failed.
C2_FailedOnlyAfterFallback ==
    vpc = "thrown" => (Len(imagePrompts) >= 1 /\ imageOutcome = "failed")

\* C3: the loop stops at the first handle that is done: once a done handle
\* has been received, every earlier handle was not done and the number of
\* getVideosOperation calls is the number of handles after the submission's
\* (none when the submission's handle is done), and a run resolves only
\* after a done handle.
C3_PollingCount ==
    /\ \A i \in DOMAIN handles : handles[i] => i = Len(handles)
    /\ LastHandleDone => PollCalls = Len(handles) - 1
    /\ (vpc \in {"fetching", "returned"} /\ imageOutcome = "none")
       => LastHandleDone

C3_Witness ==
    /\ handles = <<FALSE, FALSE, TRUE>>
    /\ PollCalls = 2
    /\ vpc = "returned"
    /\ result.kind = "blob"

\* C4: every status check is preceded by an onProgress call made after the
\* previous status check (after the submission, for the first one).
C4_ProgressBeforeEachPoll ==
    \A i \in DOMAIN trace :
        trace[i] = "poll" =>
            \E j \in 1..(i - 1) :
                /\ trace[j] = "progress"
                /\ \A k \in (j + 1)..(i - 1) : trace[k] \notin {"poll", "submit"}

\* C5: a done handle with a first uri U leads to exactly one fetch, of U
\* with the client's credential appended as the key parameter, made after
\* the done handle and after every status check; a run that returns after
\* the fetch returns a blob reference of a fetched payload, and no other run
\* returns one.
C5_Resolution ==
    /\ Len(fetchUrl) <= 1
    /\ (LastHandleDone /\ operation.uris # <<>>) <=> Len(fetchUrl) = 1
    /\ fetchUrl # <<>> =>
          fetchUrl[1] = <<operation.uris[1], "&key=", clientKey.str>>
    /\ \A i \in DOMAIN trace :
          trace[i] = "fetch" =>
             \A j \in DOMAIN trace :
                trace[j] \in {"poll", "submit"} => j < i
    /\ (vpc = "returned" /\ fetchUrl # <<>> /\ failedCall = "none")
       => (result.kind = "blob" /\ result.val \in Payloads)
    /\ result.kind = "blob" =>
          (vpc = "returned" /\ fetchUrl # <<>> /\ failedCall = "none")

C5_Witness ==
    /\ vpc = "returned"
    /\ handles = <<FALSE, TRUE>>
    /\ operation.uris = <<"U2", "U1">>
    /\ fetchUrl = <<<<"U2", "&key=", <<"K">>>>>>
    /\ result = BlobUrl("B1")

\* C19: with a service that settles every call and reports done or fails
\* within a bounded number of status checks, every run of generateVideoVeo
\* eventually returns or throws, and a run ends only after a handle that is
\* done or after a call that threw: nothing else ends the loop.
C19_PollingTermination ==
    /\ <>Terminated
    /\ [](Terminated => (LastHandleDone \/ failedCall # "none"))

\* a run that needed every status check the service allows
C19_Witness ==
    /\ vpc = "returned"
    /\ PollCalls = MaxPolls
    /\ LastHandleDone
    /\ failedCall = "none"

Count(seq, xs) == Cardinality({i \in DOMAIN seq : seq[i] \in xs})

\* C20: once the submission or a status check has thrown, the run is in its
\* catch path, and no later step makes a status check, a submission or a
\* fetch.
C20_InCatchPath ==
    failedCall \in {"submit", "poll"} =>
        /\ vpc \in {"catch", "fallback", "returned", "thrown"}
        /\ fetchUrl = <<>>
        /\ ~Contains(trace, "fetch")

C20_AbortStep ==
    failedCall \in {"submit", "poll"} =>
        /\ Count(trace', {"submit", "poll", "fetch"})
              = Count(trace, {"submit", "poll", "fetch"})
        /\ failedCall' = failedCall

C20_FailureAborts == [][C20_InCatchPath' /\ C20_AbortStep]_vars

\* the second status check threw and the run ended
C20_Witness ==
    /\ failedCall = "poll"
    /\ PollCalls = 2
    /\ handles = <<FALSE, FALSE>>
    /\ Terminated
    /\ fetchUrl = <<>>

\* status checks whose response the run has received
AnsweredPolls ==
    (IF handles = <<>> THEN 0 ELSE Len(handles) - 1)
    + (IF failedCall = "poll" THEN 1 ELSE 0)

OutstandingPolls == PollCalls - AnsweredPolls

C21_IssuedAfterAnswer ==
    PollCalls' > PollCalls =>
        /\ OutstandingPolls = 0
        /\ PollCalls' = PollCalls + 1

\* C21: within one run of generateVideoVeo at most one status check is
\* outstanding at any time, the run awaits a response exactly while one is
\* outstanding, and a status check is issued only when the response to
\* every earlier one has been received.
C21_OnePollOutstanding ==
    /\ [](OutstandingPolls \in {0, 1})
    /\ []((vpc = "polling") <=> (OutstandingPolls = 1))
    /\ [][C21_IssuedAfterAnswer]_vars

\* the second status check is outstanding, the first has been answered
C21_Witness ==
    /\ vpc = "polling"
    /\ PollCalls = 2
    /\ handles = <<FALSE, FALSE>>
    /\ OutstandingPolls = 1

\* C22: when the last handle is done and names no video, the run makes no
\* fetch, does not call the fallback generateImagePro, throws nothing and
\* returns null.
C22_NoContentIsNull ==
    (LastHandleDone /\ operation.uris = <<>>)
    => /\ fetchUrl = <<>>
       /\ imagePrompts = <<>>
       /\ thrown = ""
       /\ vpc = "returned"
       /\ result = Null

-----------------------------------------------------------------------------
(* Claims about the conversation store, checked under SpecChat and         *)
(* SpecTitle.                                                              *)

IsPrefix(a, b) == Len(a) <= Len(b) /\ SubSeq(b, 1, Len(a)) = a

WithId(convs, id) == {i \in DOMAIN convs : convs[i].id = id}

SortedDesc(convs) ==
    \A i, j \in DOMAIN convs :
        i < j => convs[i].timestamp >= convs[j].timestamp

UniqueIds(convs) ==
    \A i, j \in DOMAIN convs : convs[i].id = convs[j].id => i = j

\* C6: after a save of (id, msgs) the collection holds exactly one
\* conversation with that id, its messages are msgs and its timestamp is the
\* time of that save; a later save of the same id never moves the timestamp
\* back.
C6_SavedOnce ==
    lastOp.op = "save" =>
        /\ Cardinality(WithId(conversations, lastOp.id)) = 1
        /\ \A i \in WithId(conversations, lastOp.id) :
              /\ conversations[i].messages = lastOp.msgs
              /\ conversations[i].timestamp = lastOp.time

C6_TimestampStep ==
    \A i \in DOMAIN conversations : \A j \in DOMAIN conversations' :
        conversations[i].id = conversations'[j].id =>
            conversations'[j].timestamp >= conversations[i].timestamp

C6_Upsert == [][C6_SavedOnce' /\ C6_TimestampStep]_vars

\* the second save of a conversation, made later than the first
C6_Witness ==
    /\ lastOp.op = "save"
    /\ Len(lastOp.msgs) = 4
    /\ lastOp.time = 1
    /\ \E i \in DOMAIN conversations :
          /\ conversations[i].id = lastOp.id
          /\ conversations[i].messages = lastOp.msgs
          /\ conversations[i].title = conversations[i].messages[1].text

FirstText(c) == c.messages[1].text

TitleCutAt(c, n) ==
    c.title = IF Len(FirstText(c)) <= n THEN FirstText(c)
              ELSE SubSeq(FirstText(c), 1, n) \o <<".", ".", ".">>

\* C7, as stated: in every chat component the title of a new conversation is
\* the first message's text when it has at most 40 characters, and its first
\* 40 characters followed by "..." otherwise.
C7_TitleCutAt40 ==
    \A i \in DOMAIN conversations : TitleCutAt(conversations[i], 40)

\* C7, amended: the limit is 40 in ThinkingChat and 35 in ChatBot.
C7_TitleDerivation ==
    \A i \in DOMAIN conversations :
        TitleCutAt(conversations[i],
                   IF surface = "ChatBot" THEN 35 ELSE 40)

\* a ChatBot title cut at 35 characters, from a text of 36
C7_Witness ==
    /\ surface = "ChatBot"
    /\ \E i \in DOMAIN conversations :
          /\ Len(FirstText(conversations[i])) = 36
          /\ Len(conversations[i].title) = 38
          /\ lastOp.op = "save"

\* the messages of c are the turns of its id, but for the user turn of a
\* request still awaited
ChronologicalTurns(c) ==
    c.messages = IF inflight.active /\ inflight.activeId = c.id
                 THEN SubSeq(turns[c.id], 1, Len(turns[c.id]) - 1)
                 ELSE turns[c.id]

\* C8: every stored message list is the chronological sequence of the turns
\* of its conversation, the stored collection reads back with the same
\* lists, and a later save of a conversation keeps the list saved before as
\* a prefix.
C8_OrderKept ==
    /\ \A i \in DOMAIN conversations : ChronologicalTurns(conversations[i])
    /\ storage # NoItem =>
          LET stored == Parse(storage)
          IN \A i \in DOMAIN stored :
                \A j \in WithId(conversations, stored[i].id) :
                   stored[i].messages = conversations[j].messages

C8_PrefixStep ==
    \A i \in DOMAIN conversations : \A j \in DOMAIN conversations' :
        conversations[i].id = conversations'[j].id =>
            IsPrefix(conversations[i].messages, conversations'[j].messages)

C8_MessageOrder == []C8_OrderKept /\ [][C8_PrefixStep]_vars

\* a conversation of two exchanges, read back from the store
C8_Witness ==
    /\ lastOp.op = "load"
    /\ \E i \in DOMAIN conversations :
          /\ Len(conversations[i].messages) = 4
          /\ conversations[i].messages = turns[conversations[i].id]
          /\ conversations[i].messages[1].role = "user"
          /\ conversations[i].messages[2].role = "model"
          /\ conversations[i].messages[3].role = "user"

\* C9: after a save or a delete the stored collection is the in-memory
\* collection, whole, ordered by timestamp descending and with one
\* conversation per id.
C9_WholeSortedUnique ==
    lastOp.op \in {"save", "delete"} =>
        /\ storage = Stringify(conversations)
        /\ Parse(storage) = conversations
        /\ SortedDesc(conversations)
        /\ UniqueIds(conversations)

\* a save of the older of two conversations has moved it to the front
C9_Witness ==
    /\ lastOp.op = "save"
    /\ Len(conversations) = 2
    /\ conversations[1].id = 1
    /\ conversations[2].id = 2
    /\ conversations[1].timestamp > conversations[2].timestamp
    /\ Parse(storage) = conversations

\* the messages the store holds for id, none when it holds no such
\* conversation
StoredMessages(convs, id) ==
    IF WithId(convs, id) = {} THEN <<>>
    ELSE convs[CHOOSE i \in WithId(convs, id) : TRUE].messages

AsTurn(m) == [role |-> m.role, parts |-> <<m.text>>]

\* C14: the request that handleSend issues from a conversation holding n
\* messages carries those n messages as turns, in stored order and with
\* their roles, followed by the new prompt as one user turn.
C14_ContextStep ==
    sends' = sends + 1 =>
        LET stored == StoredMessages(conversations, currentId')
            sent == inflight'.newMessages
        IN request' =
              [i \in DOMAIN stored |-> AsTurn(stored[i])]
              \o <<[role |-> "user", parts |-> <<sent[Len(sent)].text>>]>>

C14_ChatContext == [][C14_ContextStep]_vars

\* C18: a delete removes the conversation with the id and nothing else:
\* the others keep their fields and their order, and the collection that
\* results is the one written to the store.
C18_DeleteStep ==
    (lastOp'.op = "delete" /\ conversations' # conversations) =>
        /\ \E k \in DOMAIN conversations :
              /\ conversations[k].id = lastOp'.id
              /\ conversations' =
                    [i \in 1..(Len(conversations) - 1) |->
                        IF i < k THEN conversations[i]
                        ELSE conversations[i + 1]]
        /\ WithId(conversations', lastOp'.id) = {}
        /\ storage' = Stringify(conversations')
        /\ Parse(storage') = conversations'

-----------------------------------------------------------------------------
(* Claims about the credential probes, checked under SpecCred.             *)

Blank(str) == \A i \in DOMAIN str : str[i] \in {" ", "\t"}

\* the keys the claim calls unusable
Unusable(k) ==
    \/ ~k.set
    \/ k.str = <<>>
    \/ k.str = <<"u", "n", "d", "e", "f", "i", "n", "e", "d">>
    \/ k.str = <<"n", "u", "l", "l">>
    \/ Blank(k.str)

\* C10: with no credential selected at the host, a probe reports Absent for
\* a process credential that is missing, empty, "undefined", "null" or
\* blank, and Present for every other one.
C10_CredentialValidity ==
    (cpc = "done" /\ host # "selected") =>
        verdict = IF Unusable(envKey) THEN "Absent" ELSE "Present"

-----------------------------------------------------------------------------
(* Claims about the request operations of the service, checked under       *)
(* SpecService.                                                            *)

CredentialMissingTexts == {"Activation Required", "Connection lost", "Chat Offline"}

\* C12: no request is sent with a credential that is missing, empty,
\* "undefined", "null" or blank, and an operation that ends without having
\* sent a request has thrown a credential-missing error.
C12_NoRequestWithoutCredential ==
    /\ \A i \in DOMAIN requests : ~Unusable(requests[i].key)
    /\ (spc \in {"returned", "thrown"} /\ requests = <<>>) =>
          /\ spc = "thrown"
          /\ Len(svcErrors) = 1
          /\ svcErrors[1] \in CredentialMissingTexts

NoInlinePart(candidates) ==
    \/ candidates = <<>>
    \/ \A i \in DOMAIN candidates[1] : ~candidates[1][i].inline

\* C13: when the service answers generateImagePro or editImage and the
\* answer has no candidate or no inline-image part, the operation returns
\* null and has thrown nothing.
C13_EmptyResultIsNull ==
    (answer.kind = "image" /\ NoInlinePart(answer.candidates)) =>
        /\ spc = "returned"
        /\ svcResult = [kind |-> "null", val |-> ""]
        /\ svcErrors = <<>>

\* editImage answered with a text part only
C13_Witness ==
    /\ call = "editImage"
    /\ variant = "geminiService"
    /\ answer.kind = "image"
    /\ Len(answer.candidates) = 1
    /\ Len(answer.candidates[1]) = 1
    /\ ~answer.candidates[1][1].inline
    /\ spc = "returned"
    /\ svcResult.kind = "null"

\* the errors handleApiError puts in its quota branch
ClassifiedQuota(v, e) ==
    \/ /\ v = "geminiService"
       /\ e.jsonHas \cap {"429", "quota", "resource_exhausted"} # {}
    \/ /\ v = "part_003a"
       /\ e.msgHas \cap {"429", "quota", "exhausted"} # {}

\* C15: an error that handleApiError classifies as quota or rate limit is
\* thrown with a message that holds "QUOTA", so the error panel shows the
\* switch-key button for it.
C15_QuotaSurfaced ==
    (spc = "thrown" /\ answer.kind = "error"
        /\ ClassifiedQuota(variant, answer.error))
    => ShowsSwitchKey(svcErrors[1], answer.error)

Signatures ==
    {"429", "quota", "resource_exhausted", "exhausted", "401",
     "api key not valid", "API key not valid", "403", "permission_denied"}

NoSignature(e) == (e.msgHas \cup e.jsonHas) \cap Signatures = {}

Placeholder(v) ==
    IF v = "geminiService" THEN "SYSTEM_ERROR"
    ELSE "An unexpected error occurred."

\* C16: an error that carries no quota, invalid-key or permission signature
\* is thrown by the operations that use handleApiError with its own
\* message, and with the fixed placeholder when its message is empty.
C16_PassThrough ==
    (spc = "thrown" /\ answer.kind = "error"
        /\ variant \in {"geminiService", "part_003a"}
        /\ NoSignature(answer.error))
    => svcErrors = <<IF answer.error.message # "" THEN answer.error.message
                     ELSE Placeholder(variant)>>

\* a network error passed through by generateImagePro
C16_Witness ==
    /\ variant = "geminiService"
    /\ call = "generateImagePro"
    /\ spc = "thrown"
    /\ answer.kind = "error"
    /\ answer.error.message = "Failed to fetch"
    /\ svcErrors = <<"Failed to fetch">>

\* C17: an operation sends at most one request and throws at most one
\* error; once it waits for or has received the answer exactly one request
\* was sent, a rejected request is followed by exactly one thrown error and
\* no further request, and an operation that returned has thrown nothing.
C17_NoRetry ==
    /\ Len(requests) <= 1
    /\ Len(svcErrors) <= 1
    /\ spc \in {"requesting", "returned"} =>
          (Len(requests) = 1 /\ svcErrors = <<>>)
    /\ answer.kind # "none" => Len(requests) = 1
    /\ answer.kind = "error" => (spc = "thrown" /\ Len(svcErrors) = 1)

\* runChat rejected once
C17_Witness ==
    /\ variant = "geminiService"
    /\ call = "runChat"
    /\ spc = "thrown"
    /\ answer.kind = "error"
    /\ Len(requests) = 1
    /\ Len(requests[1].contents) = 3
    /\ Len(svcErrors) = 1

-----------------------------------------------------------------------------
(* Claims about the resolver of the application shell, checked under       *)
(* SpecResolve.                                                            *)

\* C11: the resolver reports Present for a usable process credential and
\* has not asked the host then; for an unusable one it asks the host when
\* there is one and reports the host's answer, and it reports Absent when
\* there is no host or the host's query fails.
C11_ResolverOrder ==
    cpc = "done" =>
        IF ~Unusable(envKey)
        THEN verdict = "Present" /\ ~asked
        ELSE /\ asked <=> host # "none"
             /\ verdict = IF host = "selected" THEN "Present" ELSE "Absent"

-----------------------------------------------------------------------------
(* Claims about a send and its reply, checked under SpecChat.              *)

EndsWithModel(msgs) == msgs # <<>> /\ msgs[Len(msgs)].role = "model"

Alternating(ts) ==
    \A i \in DOMAIN ts : ts[i].role = IF i % 2 = 1 THEN "user" ELSE "model"

ModelTexts == Replies \cup {ErrorText(m) : m \in ErrorMessages}

\* every stored conversation ends with a model message
C24_StoredComplete ==
    LET stored == Parse(storage)
    IN /\ \A i \in DOMAIN conversations :
             EndsWithModel(conversations[i].messages)
       /\ \A i \in DOMAIN stored : EndsWithModel(stored[i].messages)

\* the turns of a conversation alternate, and a user turn is unanswered only
\* while its request is in flight
C24_TurnsAnswered ==
    \A id \in Ids :
        /\ Alternating(turns[id])
        /\ (Len(turns[id]) % 2 = 1) <=>
              (inflight.active /\ inflight.activeId = id)

\* the step that settles a request appends one model message to the
\* messages of the send and saves the conversation with them; the step that
\* accepts a send saves nothing
C24_SettleStep ==
    /\ (inflight.active /\ ~inflight'.active /\ lastOp'.op # "load") =>
          LET id == inflight.activeId
              saved == StoredMessages(conversations', id)
              n == Len(inflight.newMessages)
          IN /\ Cardinality(WithId(conversations', id)) = 1
             /\ Len(saved) = n + 1
             /\ SubSeq(saved, 1, n) = inflight.newMessages
             /\ inflight.newMessages[n].role = "user"
             /\ saved[n + 1].role = "model"
             /\ saved[n + 1].text \in ModelTexts
             /\ StoredMessages(Parse(storage'), id) = saved
             /\ \A j \in Ids \ {id} :
                   StoredMessages(conversations', j)
                      = StoredMessages(conversations, j)
    /\ sends' # sends =>
          (conversations' = conversations /\ storage' = storage)

\* C24: every accepted send, whether its request succeeds or fails, gets
\* exactly one model message (the reply, or "Error: " and the error message)
\* right after the user's message, and the conversation is saved once with
\* both, so no stored conversation ends with a user message.
C24_OneModelMessagePerSend ==
    /\ [](C24_StoredComplete /\ C24_TurnsAnswered)
    /\ [][C24_SettleStep]_vars

\* a failed request has been saved as an "Error: " message
C24_Witness ==
    /\ ~loading
    /\ lastOp.op = "save"
    /\ Len(lastOp.msgs) = 2
    /\ lastOp.msgs[1].role = "user"
    /\ lastOp.msgs[2] = ModelMsg(ErrorText(<<"4", "2", "9">>))
    /\ StoredMessages(Parse(storage), lastOp.id) = lastOp.msgs

C25_NoSendWhileLoading ==
    loading =>
        /\ sends' = sends
        /\ request' \in {request, NoRequest}
        /\ inflight'.active => inflight' = inflight

\* C25: at most one chat request of a surface is in flight: the surface is
\* loading exactly while a request awaits its reply, and while it is
\* loading no step accepts a send or issues a request.
C25_OneRequestInFlight ==
    /\ [](loading <=> inflight.active)
    /\ []((request # NoRequest) <=> inflight.active)
    /\ [][C25_NoSendWhileLoading]_vars

\* the second request is in flight after the first has settled
C25_Witness ==
    /\ loading
    /\ inflight.active
    /\ request # NoRequest
    /\ sends = 2
    /\ conversations # <<>>

\* C27: a conversation that has just been deleted is absent from the
\* collection and from the store after the next step, whatever that step
\* is, the reply to a request of that conversation included.
C27_DeletedStaysDeleted ==
    [][lastOp.op = "delete" =>
          /\ WithId(conversations', lastOp.id) = {}
          /\ storage' # NoItem => WithId(Parse(storage'), lastOp.id) = {}]_vars

-----------------------------------------------------------------------------
(* Claims about the classes of handleApiError, checked under SpecService.  *)

\* the text handleApiError inspects: the serialised error in
\* geminiService.ts, the message in part_003
Inspected(v, e) == IF v = "geminiService" THEN e.jsonHas ELSE e.msgHas

QuotaSignature(v, e) ==
    Inspected(v, e) \cap
        (IF v = "geminiService" THEN {"429", "quota", "resource_exhausted"}
         ELSE {"429", "quota", "exhausted"}) # {}

InvalidKeySignature(v, e) ==
    Inspected(v, e) \cap
        (IF v = "geminiService" THEN {"401", "api key not valid"}
         ELSE {"401", "API key not valid"}) # {}

PermissionSignature(v, e) ==
    Inspected(v, e) \cap {"403", "permission_denied"} # {}

QuotaClass == {"MODEL_LOCKED", "QUOTA_REACHED", "QUOTA_EXHAUSTED"}

Classified ==
    /\ spc = "thrown"
    /\ answer.kind = "error"
    /\ variant \in {"geminiService", "part_003a"}

\* quota is tested first, the invalid key second
C28_QuotaThenInvalidKey ==
    Classified =>
        LET e == answer.error
            q == QuotaSignature(variant, e)
            k == InvalidKeySignature(variant, e)
        IN /\ Len(svcErrors) = 1
           /\ q <=> svcErrors[1] \in QuotaClass
           /\ (~q /\ k) <=> svcErrors[1] = "INVALID_KEY"

\* permission is tested third
C28_PermissionThird ==
    Classified =>
        LET e == answer.error
        IN (/\ ~QuotaSignature(variant, e)
            /\ ~InvalidKeySignature(variant, e)
            /\ PermissionSignature(variant, e))
           <=> svcErrors[1] = "BILLING_REQUIRED"

-----------------------------------------------------------------------------
(* Claims about the views.                                                 *)

Shown == motion.resultUrl # Null

\* C23: a result the video view shows is marked a real video exactly when
\* the run resolved it from the download, as a blob address, and is shown
\* as a still exactly when it is the fallback image, a data address.
C23_RealVideoIffResolved ==
    Shown =>
        /\ motion.isRealVideo <=> motion.origin = "resolved"
        /\ ~motion.isRealVideo <=> motion.origin = "fallback"
        /\ motion.origin = "resolved" <=> motion.resultUrl.kind = "blob"
        /\ motion.origin = "fallback" <=> motion.resultUrl.kind = "data"

\* the second run fell back to an image after the first showed a video
C23_Witness ==
    /\ motion.runs = 2
    /\ ~motion.loading
    /\ motion.resultUrl.kind = "data"
    /\ ~motion.isRealVideo
    /\ motion.origin = "fallback"
    /\ imageOutcome = "ok"

C29_Flag ==
    IF panel.view = "ChatBot"
    THEN loading <=> inflight.active
    ELSE panel.loading <=> panel.pc = "awaiting"

C29_Step ==
    /\ panel'.runs > panel.runs => panel'.loading
    /\ (panel.pc = "awaiting" /\ panel'.pc = "idle") => ~panel'.loading
    /\ sends' > sends => loading'
    /\ (inflight.active /\ ~inflight'.active) => ~loading'

\* C29: an operation a view starts sets the loading flag of the view, the
\* step in which the service call returns or throws clears it, and the flag
\* is set exactly while the call is awaited.
C29_LoadingReset == []C29_Flag /\ [][C29_Step]_vars

\* the edit of the image editor failed and the view is no longer loading
C29_Witness ==
    /\ panel.view = "ImageEditor"
    /\ panel.runs = 1
    /\ panel.error # ""
    /\ panel.pc = "idle"
    /\ ~panel.loading

\* C26: once the selection handler has set the flag unverified, a probe
\* that started after the dialog settled eventually sets the flag.
C26_Reprobed == shell.unverified ~> ~shell.unverified

\* C30: while the camera is marked inactive the editor holds no stream
\* whose tracks run.
C30_InactiveCameraReleased ==
    ~editor.isCameraActive =>
        /\ editor.streamRef = NoStream
        /\ editor.streamRef \notin editor.live

====
